---- MODULE Spec2Model ----
(***************************************************************************)
(* eye-break: a browser extension that reminds the user to rest their      *)
(* eyes.  The popup (src/src/App.tsx) edits and saves the settings and     *)
(* reschedules the alarm; the background script (src/public/background.js) *)
(* reschedules the alarm on browser startup and shows a notification each  *)
(* time the alarm fires.  Both talk to the host only through asynchronous  *)
(* calls: storage.local, alarms, notifications.                            *)
(*                                                                         *)
(* Every host call is a request put on the facility's queue; the host      *)
(* applies the requests of one facility in the order they were issued.  A  *)
(* call the code awaits (or chains with .then) carries its continuation:   *)
(* the step that applies the request also runs the code up to the next     *)
(* await.  A call the code does not await has no continuation and is       *)
(* applied whenever the host gets to it.  Reads that change nothing at the  *)
(* host and whose answer is used at once (the countdown poll) or by nobody *)
(* (the reads behind startupHandler's Promises) are not queued.            *)
(*                                                                         *)
(* Time is counted in minutes.                                             *)
(***************************************************************************)
EXTENDS Integers, Sequences, FiniteSets, TLC

\* ------------------------------------------------------------- bounds
\* How many times the user presses Save.
MaxSaves == 2
\* How many browser startups happen.
MaxStartups == 1
\* The clock stops at this minute.
MaxTime == 1
\* How many alarm events with an unexpected name the host delivers.
MaxStray == 1

\* ------------------------------------------------ program constants
DefaultInterval == 20
DefaultMessage == "Time to give your eyes a break!"
AlarmName == "eye-break-notification"
NotificationTitle == "Eye Break!"

\* The values the user can type into the form.
Intervals == {1, DefaultInterval}
Messages == {"", DefaultMessage}
\* The names an unexpected alarm event may carry.
StrayNames == {"stray-alarm"}

\* ------------------------------------------------ JavaScript values
\* A value carries its type; b, n and s hold a boolean, a number and a
\* string.  The only objects the code handles are Promises.
Bool(x) == [type |-> "boolean", b |-> x, n |-> 0, s |-> ""]
Num(x) == [type |-> "number", b |-> FALSE, n |-> x, s |-> ""]
Str(x) == [type |-> "string", b |-> FALSE, n |-> 0, s |-> x]
Undefined == [type |-> "undefined", b |-> FALSE, n |-> 0, s |-> ""]
PromiseObject == [type |-> "object", b |-> FALSE, n |-> 0, s |-> ""]

\* if (v): every object is truthy, also a Promise of false.
Truthy(v) ==
    CASE v.type = "boolean" -> v.b
      [] v.type = "number" -> v.n # 0
      [] v.type = "string" -> v.s # ""
      [] v.type = "object" -> TRUE
      [] OTHER -> FALSE

\* a !== b
StrictNotEqual(a, b) == a # b

\* ------------------------------------------------------------- state
VARIABLES
    store,          \* browser.storage.local: key -> value, present keys only
    alarms,         \* browser.alarms: name -> [periodInMinutes, scheduledTime]
    now,            \* the clock, in minutes
    storageQ,       \* storage calls issued and not yet applied, oldest first
    alarmsQ,        \* alarm calls issued and not yet applied, oldest first
    mounted,        \* the popup is open
    ui,             \* the popup's React state
    saves,          \* the handleSave invocations, in the order they started
    startups,       \* the startupHandler invocations
    fires,          \* the alarmHandler invocations
    notifications   \* the notifications requested, oldest first

vars ==
    <<store, alarms, now, storageQ, alarmsQ, mounted, ui, saves, startups,
      fires, notifications>>

\* A host call: what is asked, by which handler invocation, and whether the
\* code waits for the answer (await, or .then).
Call(op, key, val, h, id, awaited) ==
    [op |-> op, key |-> key, val |-> val, h |-> h, id |-> id,
     awaited |-> awaited]

\* ------------------------------------------------- the host facilities
\* storage.local.set({key: val})
StorageSet(s, key, val) ==
    [k \in DOMAIN s \cup {key} |-> IF k = key THEN val ELSE s[k]]

\* alarms.clear(name): removes the alarm, no-op when there is none.
AlarmsClear(a, name) == [x \in DOMAIN a \ {name} |-> a[x]]

\* alarms.create(name, {periodInMinutes}): installs the alarm, replacing one
\* of the same name; the first fire is one period from now.  The host checks
\* its arguments: a periodInMinutes that is not a positive number is refused
\* and nothing is installed.
AlarmsCreate(a, name, period, t) ==
    IF period.type = "number" /\ period.n > 0
    THEN [x \in DOMAIN a \cup {name} |->
            IF x = name
            THEN [periodInMinutes |-> period.n, scheduledTime |-> t + period.n]
            ELSE a[x]]
    ELSE a

\* ------------------------------------------------ src/src/App.tsx
GetEnabled(s) ==
    IF "enabled" \notin DOMAIN s THEN Bool(FALSE) ELSE s["enabled"]

\* Mutant of GetInterval: `storageResp["interval"] || 20`, which takes a
\* stored 0 for an absent interval.
GetIntervalOrDefault(s) ==
    IF "interval" \notin DOMAIN s \/ ~Truthy(s["interval"])
    THEN Num(DefaultInterval) ELSE s["interval"]

GetInterval(s) ==
    IF "interval" \notin DOMAIN s THEN Num(DefaultInterval) ELSE s["interval"]

\* Mutant of GetMessage: `storageResp["message"] || default`, which takes a
\* stored empty message for an absent one.
GetMessageOrDefault(s) ==
    IF "message" \notin DOMAIN s \/ ~Truthy(s["message"])
    THEN Str(DefaultMessage) ELSE s["message"]

GetMessage(s) ==
    IF "message" \notin DOMAIN s THEN Str(DefaultMessage) ELSE s["message"]

\* getNextAlarmTime: the alarm's scheduledTime, or 0 if there is no alarm.
GetNextAlarmTime(a) ==
    IF AlarmName \notin DOMAIN a THEN 0 ELSE a[AlarmName].scheduledTime

\* Mutant of SetNextTime: getNextAlarmTime dereferences the alarm without
\* the undefined check, throws when there is none, and setNextTime never
\* runs.
SetNextTimeIfAlarm(u, a, t) ==
    IF AlarmName \notin DOMAIN a THEN u
    ELSE [u EXCEPT !.nextTime = GetNextAlarmTime(a) - t]

\* getNextAlarmTime().then(nextAlarm => setNextTime(nextAlarm - now)).
SetNextTime(u, a, t) ==
    [u EXCEPT !.nextTime = GetNextAlarmTime(a) - t]

\* {nextTime > 0 && (...)}: the countdown is rendered.
CountdownShown(u) == u.nextTime > 0

\* useState(false), useState(20), useState(""), useState(0)
InitialState ==
    [enabled |-> Bool(FALSE), interval |-> Num(DefaultInterval),
     message |-> Str(""), nextTime |-> 0]

\* ------------------------------------------- src/public/background.js
BgGetEnabled(s) ==
    IF "enabled" \notin DOMAIN s THEN Bool(FALSE) ELSE s["enabled"]

BgGetInterval(s) ==
    IF "interval" \notin DOMAIN s THEN Num(DefaultInterval) ELSE s["interval"]

\* Mutant of the background getMessage: `storageResp["message"] || default`.
BgGetMessageOrDefault(s) ==
    IF "message" \notin DOMAIN s \/ ~Truthy(s["message"])
    THEN Str(DefaultMessage) ELSE s["message"]

BgGetMessage(s) ==
    IF "message" \notin DOMAIN s THEN Str(DefaultMessage) ELSE s["message"]

\* ------------------------------------------------------------- Init
\* The extension has just been installed: nothing is stored, no alarm is
\* set, the popup is closed.
Init ==
    /\ store = <<>>
    /\ alarms = <<>>
    /\ now = 0
    /\ storageQ = <<>>
    /\ alarmsQ = <<>>
    /\ mounted = FALSE
    /\ ui = InitialState
    /\ saves = <<>>
    /\ startups = <<>>
    /\ fires = <<>>
    /\ notifications = <<>>

\* The oldest call of queue q is one that invocation id of handler h waits for.
Awaiting(q, h, id) ==
    /\ q # <<>>
    /\ Head(q).h = h
    /\ Head(q).id = id
    /\ Head(q).awaited

\* ------------------------------------------------ the popup: mounting
\* The popup opens: the mount effects load the three settings into the form
\* and start reading the next alarm time (NextTimeRead).
Mount ==
    /\ ~mounted
    /\ mounted' = TRUE
    /\ ui' = InitialState
    /\ storageQ' = storageQ \o
          << Call("get", "enabled", Undefined, "mount", 0, TRUE),
             Call("get", "interval", Undefined, "mount", 0, TRUE),
             Call("get", "message", Undefined, "mount", 0, TRUE) >>
    /\ UNCHANGED <<store, alarms, now, alarmsQ, saves, startups, fires,
                   notifications>>

\* getEnabled().then(setEnabledState), and the same for interval and message.
MountLoaded ==
    /\ Awaiting(storageQ, "mount", 0)
    /\ storageQ' = Tail(storageQ)
    /\ ui' = CASE Head(storageQ).key = "enabled" ->
                    [ui EXCEPT !.enabled = GetEnabled(store)]
               [] Head(storageQ).key = "interval" ->
                    [ui EXCEPT !.interval = GetInterval(store)]
               [] OTHER ->
                    [ui EXCEPT !.message = GetMessage(store)]
    /\ UNCHANGED <<store, alarms, now, alarmsQ, mounted, saves, startups,
                   fires, notifications>>

\* getNextAlarmTime() is answered and setNextTime(nextAlarm - now) runs: the
\* read the second mount effect makes at once, and the one it makes every
\* 500 ms.  The read changes nothing at the host, so asking and answering
\* are one step, taken at the moment the host answers.
NextTimeRead ==
    /\ mounted
    /\ ui' = SetNextTime(ui, alarms, now)
    /\ UNCHANGED <<store, alarms, now, storageQ, alarmsQ, mounted, saves,
                   startups, fires, notifications>>

\* ------------------------------------------------ the popup: editing
\* The Switch, the number input and the text input.
SetEnabledState ==
    /\ mounted
    /\ ui' = [ui EXCEPT !.enabled = Bool(~ui.enabled.b)]
    /\ UNCHANGED <<store, alarms, now, storageQ, alarmsQ, mounted, saves,
                   startups, fires, notifications>>

SetIntervalState ==
    /\ mounted
    /\ \E i \in Intervals :
          /\ Num(i) # ui.interval
          /\ ui' = [ui EXCEPT !.interval = Num(i)]
    /\ UNCHANGED <<store, alarms, now, storageQ, alarmsQ, mounted, saves,
                   startups, fires, notifications>>

SetMessageState ==
    /\ mounted
    /\ \E m \in Messages :
          /\ Str(m) # ui.message
          /\ ui' = [ui EXCEPT !.message = Str(m)]
    /\ UNCHANGED <<store, alarms, now, storageQ, alarmsQ, mounted, saves,
                   startups, fires, notifications>>

\* ------------------------------------------------ the popup: handleSave
\* Mutant of SettingsChanged: only `enabled` is compared.
SettingsChangedEnabledOnly(t) == StrictNotEqual(t.prevEnabled, t.enabled)

\* Mutant of SettingsChanged: the message is not compared.
SettingsChangedNoMessage(t) ==
    \/ StrictNotEqual(t.prevEnabled, t.enabled)
    \/ StrictNotEqual(t.prevInterval, t.interval)

\* The if of handleSave: any of the three previous values differs from the
\* value in the form.
SettingsChanged(t) ==
    \/ StrictNotEqual(t.prevEnabled, t.enabled)
    \/ StrictNotEqual(t.prevInterval, t.interval)
    \/ StrictNotEqual(t.prevMessage, t.message)

\* Mutant of SaveStorageCalls: the three writes are issued first, before the
\* previous values are read.
SaveStorageCallsWritesFirst(t, id, at) ==
    CASE at = "start" ->
            << Call("set", "enabled", t.enabled, "save", id, FALSE),
               Call("set", "interval", t.interval, "save", id, FALSE),
               Call("set", "message", t.message, "save", id, FALSE),
               Call("get", "enabled", Undefined, "save", id, TRUE) >>
      [] at = "getEnabled" ->
            << Call("get", "interval", Undefined, "save", id, TRUE) >>
      [] at = "getInterval" ->
            << Call("get", "message", Undefined, "save", id, TRUE) >>
      [] OTHER -> <<>>

\* The storage calls handleSave issues, by the await it has just passed
\* ("start": none yet).  The three reads are awaited one after the other; the
\* three writes are issued without await.
SaveStorageCalls(t, id, at) ==
    CASE at = "start" ->
            << Call("get", "enabled", Undefined, "save", id, TRUE) >>
      [] at = "getEnabled" ->
            << Call("get", "interval", Undefined, "save", id, TRUE) >>
      [] at = "getInterval" ->
            << Call("get", "message", Undefined, "save", id, TRUE) >>
      [] at = "getMessage" ->
            << Call("set", "enabled", t.enabled, "save", id, FALSE),
               Call("set", "interval", t.interval, "save", id, FALSE),
               Call("set", "message", t.message, "save", id, FALSE) >>
      [] OTHER -> <<>>

\* Mutant of SaveAlarmCalls: the alarm is created before the old one is
\* cleared.
SaveAlarmCallsCreateFirst(t, id, at) ==
    CASE at = "getMessage" ->
            IF SettingsChanged(t)
            THEN (IF Truthy(t.enabled)
                  THEN << Call("create", AlarmName, t.interval, "save", id, FALSE) >>
                  ELSE <<>>)
                 \o << Call("clear", AlarmName, Undefined, "save", id, TRUE) >>
            ELSE <<>>
      [] at = "clear" ->
            << Call("get", AlarmName, Undefined, "save", id, TRUE) >>
      [] OTHER -> <<>>

\* Mutant of SaveAlarmCalls: the clear is inside `if (enabled)`, so that
\* disabling leaves the alarm alone.
SaveAlarmCallsClearIfEnabled(t, id, at) ==
    CASE at = "getMessage" ->
            IF SettingsChanged(t) /\ Truthy(t.enabled)
            THEN << Call("clear", AlarmName, Undefined, "save", id, TRUE) >>
            ELSE <<>>
      [] at = "clear" ->
            << Call("create", AlarmName, t.interval, "save", id, FALSE),
               Call("get", AlarmName, Undefined, "save", id, TRUE) >>
      [] OTHER -> <<>>

\* The alarm calls handleSave issues, by the await it has just passed: on a
\* change the clear, awaited; after the clear the create (only if enabled,
\* not awaited) and the read of the next alarm time.
SaveAlarmCalls(t, id, at) ==
    CASE at = "getMessage" ->
            IF SettingsChanged(t)
            THEN << Call("clear", AlarmName, Undefined, "save", id, TRUE) >>
            ELSE <<>>
      [] at = "clear" ->
            (IF Truthy(t.enabled)
             THEN << Call("create", AlarmName, t.interval, "save", id, FALSE) >>
             ELSE <<>>)
            \o << Call("get", AlarmName, Undefined, "save", id, TRUE) >>
      [] OTHER -> <<>>

\* Where handleSave waits next, given the calls it has just issued: at the
\* last awaited one, or nowhere (it has returned).
AwaitedOp(c) ==
    CASE c.op = "get" /\ c.key = "enabled" -> "getEnabled"
      [] c.op = "get" /\ c.key = "interval" -> "getInterval"
      [] c.op = "get" /\ c.key = "message" -> "getMessage"
      [] c.op = "get" -> "nextAlarm"
      [] OTHER -> c.op

SavePc(calls) ==
    LET w == {i \in 1..Len(calls) : calls[i].awaited}
    IN  IF w = {} THEN "done"
        ELSE AwaitedOp(calls[CHOOSE i \in w : \A j \in w : j <= i])

\* Run handleSave from the await `at` to the next one.
SaveRun(t, id, at, sq, aq) ==
    LET sc == SaveStorageCalls(t, id, at)
        ac == SaveAlarmCalls(t, id, at)
        t2 == IF at = "getMessage"
              THEN [t EXCEPT !.changed = SettingsChanged(t)] ELSE t
    IN  /\ storageQ' = sq \o sc
        /\ alarmsQ' = aq \o ac
        /\ saves' = [saves EXCEPT ![id] = [t2 EXCEPT !.pc = SavePc(sc \o ac)]]

\* The user presses Save: handleSave starts with the values in the form.
HandleSave ==
    /\ mounted
    /\ Len(saves) < MaxSaves
    /\ LET id == Len(saves) + 1
           t == [pc |-> "start", enabled |-> ui.enabled,
                 interval |-> ui.interval, message |-> ui.message,
                 prevEnabled |-> Undefined, prevInterval |-> Undefined,
                 prevMessage |-> Undefined, changed |-> FALSE]
           sc == SaveStorageCalls(t, id, "start")
           ac == SaveAlarmCalls(t, id, "start")
       IN  /\ storageQ' = storageQ \o sc
           /\ alarmsQ' = alarmsQ \o ac
           /\ saves' = Append(saves, [t EXCEPT !.pc = SavePc(sc \o ac)])
    /\ UNCHANGED <<store, alarms, now, mounted, ui, startups, fires,
                   notifications>>

\* A storage read of handleSave is answered.
SaveRead ==
    \E id \in 1..Len(saves) :
        /\ Awaiting(storageQ, "save", id)
        /\ Head(storageQ).op = "get"
        /\ LET key == Head(storageQ).key
               t == CASE key = "enabled" ->
                          [saves[id] EXCEPT !.prevEnabled = GetEnabled(store)]
                      [] key = "interval" ->
                          [saves[id] EXCEPT !.prevInterval = GetInterval(store)]
                      [] OTHER ->
                          [saves[id] EXCEPT !.prevMessage = GetMessage(store)]
           IN  SaveRun(t, id, AwaitedOp(Head(storageQ)), Tail(storageQ), alarmsQ)
        /\ UNCHANGED <<store, alarms, now, mounted, ui, startups, fires,
                       notifications>>

\* The clear of handleSave is done.
SaveCleared ==
    \E id \in 1..Len(saves) :
        /\ Awaiting(alarmsQ, "save", id)
        /\ Head(alarmsQ).op = "clear"
        /\ alarms' = AlarmsClear(alarms, Head(alarmsQ).key)
        /\ SaveRun(saves[id], id, "clear", storageQ, Tail(alarmsQ))
        /\ UNCHANGED <<store, now, mounted, ui, startups, fires, notifications>>

\* The read of the next alarm time at the end of handleSave is answered.
SaveNextTime ==
    \E id \in 1..Len(saves) :
        /\ Awaiting(alarmsQ, "save", id)
        /\ Head(alarmsQ).op = "get"
        /\ ui' = SetNextTime(ui, alarms, now)
        /\ SaveRun(saves[id], id, "nextAlarm", storageQ, Tail(alarmsQ))
        /\ UNCHANGED <<store, alarms, now, mounted, startups, fires,
                       notifications>>

\* ------------------------------------- calls nobody waits for: the host
\* A storage.local.set is applied.
StorageWrite ==
    /\ storageQ # <<>>
    /\ Head(storageQ).op = "set"
    /\ store' = StorageSet(store, Head(storageQ).key, Head(storageQ).val)
    /\ storageQ' = Tail(storageQ)
    /\ UNCHANGED <<alarms, now, alarmsQ, mounted, ui, saves, startups, fires,
                   notifications>>

\* An alarms.create is applied.
AlarmCreate ==
    /\ alarmsQ # <<>>
    /\ Head(alarmsQ).op = "create"
    /\ alarms' = AlarmsCreate(alarms, Head(alarmsQ).key, Head(alarmsQ).val, now)
    /\ alarmsQ' = Tail(alarmsQ)
    /\ UNCHANGED <<store, now, storageQ, mounted, ui, saves, startups, fires,
                   notifications>>

\* ------------------------------------- the background: startupHandler
\* `const enabled = getEnabled()` and `const interval = getInterval()`: the
\* call of an async function is not awaited, so the local holds the Promise,
\* not the value it resolves to.
AsyncResult == PromiseObject

\* The alarm calls startupHandler issues, by the await it has just passed.
StartupAlarmCalls(t, id, at) ==
    CASE at = "start" ->
            IF Truthy(t.enabled)
            THEN << Call("clear", AlarmName, Undefined, "startup", id, TRUE) >>
            ELSE <<>>
      [] at = "clear" ->
            << Call("create", AlarmName, t.interval, "startup", id, FALSE) >>
      [] OTHER -> <<>>

\* browser.runtime.onStartup: startupHandler starts.  The storage reads that
\* getEnabled and getInterval issue change nothing and their answers reach
\* nobody (the Promises are never awaited), so they are not put on the queue.
StartupHandler ==
    /\ Len(startups) < MaxStartups
    /\ LET id == Len(startups) + 1
           e == AsyncResult
           t == [pc |-> "start", enabled |-> e,
                 interval |-> IF Truthy(e) THEN AsyncResult ELSE Undefined]
           ac == StartupAlarmCalls(t, id, "start")
       IN  /\ alarmsQ' = alarmsQ \o ac
           /\ startups' = Append(startups, [t EXCEPT !.pc = SavePc(ac)])
    /\ UNCHANGED <<store, alarms, now, storageQ, mounted, ui, saves, fires,
                   notifications>>

\* The clear of startupHandler is done: it creates the alarm and returns.
StartupCleared ==
    \E id \in 1..Len(startups) :
        /\ Awaiting(alarmsQ, "startup", id)
        /\ Head(alarmsQ).op = "clear"
        /\ alarms' = AlarmsClear(alarms, Head(alarmsQ).key)
        /\ LET ac == StartupAlarmCalls(startups[id], id, "clear")
           IN  /\ alarmsQ' = Tail(alarmsQ) \o ac
               /\ startups' = [startups EXCEPT ![id].pc = SavePc(ac)]
        /\ UNCHANGED <<store, now, storageQ, mounted, ui, saves, fires,
                       notifications>>

\* --------------------------------------- the background: alarmHandler
\* Mutant of AlarmHandlerCalls: return after logging an unexpected name.
AlarmHandlerCallsReturnEarly(name, id) ==
    IF StrictNotEqual(Str(name), Str(AlarmName)) THEN <<>>
    ELSE <<Call("get", "message", Undefined, "fire", id, TRUE)>>

\* The host calls alarmHandler makes before its first await resolves: the
\* name check only logs, the handler goes on to getMessage() either way.
AlarmHandlerCalls(name, id) ==
    <<Call("get", "message", Undefined, "fire", id, TRUE)>>

\* alarmHandler(alarmInfo) up to its first await.
OnAlarm(name) ==
    LET calls == AlarmHandlerCalls(name, Len(fires) + 1) IN
    /\ fires' = Append(fires,
          [pc |-> SavePc(calls), name |-> name,
           diagnostic |-> StrictNotEqual(Str(name), Str(AlarmName)),
           message |-> Undefined])
    /\ storageQ' = storageQ \o calls

\* An alarm is due: the host reschedules it one period later and delivers
\* onAlarm.
AlarmHandler ==
    \E name \in DOMAIN alarms :
        /\ alarms[name].scheduledTime <= now
        /\ alarms' = [alarms EXCEPT ![name].scheduledTime =
                          @ + alarms[name].periodInMinutes]
        /\ OnAlarm(name)
        /\ UNCHANGED <<store, now, alarmsQ, mounted, ui, saves, startups,
                       notifications>>

\* The host delivers onAlarm with a name the extension never creates.
StrayAlarm ==
    \E name \in StrayNames :
        /\ Cardinality({id \in 1..Len(fires) : fires[id].name \in StrayNames})
              < MaxStray
        /\ OnAlarm(name)
        /\ UNCHANGED <<store, alarms, now, alarmsQ, mounted, ui, saves,
                       startups, notifications>>

\* The message is read: createNotification("Eye Break!", message).
CreateNotification ==
    \E id \in 1..Len(fires) :
        /\ Awaiting(storageQ, "fire", id)
        /\ storageQ' = Tail(storageQ)
        /\ fires' = [fires EXCEPT ![id].message = BgGetMessage(store),
                                  ![id].pc = "done"]
        /\ notifications' = Append(notifications,
              [title |-> NotificationTitle, message |-> BgGetMessage(store).s])
        /\ UNCHANGED <<store, alarms, now, alarmsQ, mounted, ui, saves, startups>>

\* ------------------------------------------------------------- time
Tick ==
    /\ now < MaxTime
    /\ now' = now + 1
    /\ UNCHANGED <<store, alarms, storageQ, alarmsQ, mounted, ui, saves,
                   startups, fires, notifications>>

\* ----------------------------------------------------- specifications
\* What the host and the handlers under way do.
Progress ==
    \/ MountLoaded
    \/ NextTimeRead
    \/ SaveRead
    \/ SaveCleared
    \/ SaveNextTime
    \/ StorageWrite
    \/ AlarmCreate
    \/ StartupCleared
    \/ AlarmHandler
    \/ CreateNotification
    \/ Tick

\* The user edits the form.  Edits after the last Save of a run are left
\* out: nothing reads the form after it.
Edit ==
    /\ Len(saves) < MaxSaves
    /\ \/ SetEnabledState
       \/ SetIntervalState
       \/ SetMessageState

\* Events arrive at any moment, also while a handler waits at an await.
Next ==
    \/ Mount
    \/ Edit
    \/ HandleSave
    \/ StartupHandler
    \/ Progress

Spec == Init /\ [][Next]_vars

\* Every handler that started has returned and every callback has run; calls
\* that nobody waits for may still be on their way to the host.
Idle ==
    /\ \A i \in 1..Len(storageQ) : ~storageQ[i].awaited
    /\ \A i \in 1..Len(alarmsQ) : ~alarmsQ[i].awaited

\* One thing at a time: the user edits the form and presses Save, and the
\* browser starts up, only after the handlers before have returned.
SeqEdit == Idle /\ Edit

SeqHandleSave == Idle /\ HandleSave

SeqStartupHandler == Idle /\ StartupHandler

SeqNext ==
    \/ Mount
    \/ SeqEdit
    \/ SeqHandleSave
    \/ SeqStartupHandler
    \/ Progress

SeqSpec == Init /\ [][SeqNext]_vars

\* The popup's saves one at a time, and alarm events with unexpected names:
\* what alarmHandler reads is written by the saves only.
StrayNext ==
    \/ Mount
    \/ MountLoaded
    \/ SeqEdit
    \/ SeqHandleSave
    \/ SaveRead
    \/ SaveCleared
    \/ SaveNextTime
    \/ StorageWrite
    \/ AlarmCreate
    \/ StrayAlarm
    \/ CreateNotification

StraySpec == Init /\ [][StrayNext]_vars

\* The host call at the head of the alarms queue is the create of the
\* first save.
FirstSaveCreate ==
    /\ alarmsQ # <<>>
    /\ Head(alarmsQ).op = "create"
    /\ Head(alarmsQ).h = "save"
    /\ Head(alarmsQ).id = 1

\* The host fails that create: no alarm is installed and, the call not
\* being awaited, nobody sees the rejection.
AlarmCreateFails ==
    /\ FirstSaveCreate
    /\ alarmsQ' = Tail(alarmsQ)
    /\ UNCHANGED <<store, alarms, now, storageQ, mounted, ui, saves, startups,
                   fires, notifications>>

\* Every other create is applied as usual.
AlarmCreateOthers ==
    /\ ~FirstSaveCreate
    /\ AlarmCreate

\* Handlers one at a time, with a host that fails the first save's create.
FailNext ==
    \/ Mount
    \/ SeqEdit
    \/ SeqHandleSave
    \/ SeqStartupHandler
    \/ MountLoaded
    \/ NextTimeRead
    \/ SaveRead
    \/ SaveCleared
    \/ SaveNextTime
    \/ StorageWrite
    \/ AlarmCreateFails
    \/ AlarmCreateOthers
    \/ StartupCleared
    \/ AlarmHandler
    \/ CreateNotification
    \/ Tick

FailSpec == Init /\ [][FailNext]_vars

\* The values a key of the store may hold, the falsy ones among them.
StoredValues(key) ==
    CASE key = "enabled" -> {Bool(FALSE), Bool(TRUE)}
      [] key = "interval" -> {Num(0)} \cup {Num(n) : n \in Intervals}
      [] OTHER -> {Str(m) : m \in Messages}

\* The stores the getters may meet: each key absent or holding one of its
\* values.
Stores ==
    UNION {[ks -> UNION {StoredValues(k) : k \in ks}] :
              ks \in SUBSET {"enabled", "interval", "message"}}

\* The getters run against a store left by earlier sessions: the popup
\* opens and loads the form, the alarm fires and the background reads the
\* message.
GetterInit ==
    /\ store \in {s \in Stores : \A k \in DOMAIN s : s[k] \in StoredValues(k)}
    /\ alarms = AlarmsCreate(<<>>, AlarmName, Num(1), 0)
    /\ now = 0
    /\ storageQ = <<>>
    /\ alarmsQ = <<>>
    /\ mounted = FALSE
    /\ ui = InitialState
    /\ saves = <<>>
    /\ startups = <<>>
    /\ fires = <<>>
    /\ notifications = <<>>

GetterNext ==
    \/ Mount
    \/ MountLoaded
    \/ AlarmHandler
    \/ CreateNotification
    \/ Tick

GetterSpec == GetterInit /\ [][GetterNext]_vars

\* The settings an earlier session of the popup saved: enabled, every
\* minute, with an empty message.
EarlierStore ==
    [k \in {"enabled", "interval", "message"} |->
        CASE k = "enabled" -> Bool(TRUE)
          [] k = "interval" -> Num(1)
          [] OTHER -> Str("")]

\* The popup is about to open either on a fresh install or on the
\* settings and the alarm of an earlier session.
NoEditInit ==
    /\ \/ /\ store = <<>>
          /\ alarms = <<>>
       \/ /\ store = EarlierStore
          /\ alarms = AlarmsCreate(<<>>, AlarmName, EarlierStore["interval"], 0)
    /\ now = 0
    /\ storageQ = <<>>
    /\ alarmsQ = <<>>
    /\ mounted = FALSE
    /\ ui = InitialState
    /\ saves = <<>>
    /\ startups = <<>>
    /\ fires = <<>>
    /\ notifications = <<>>

\* Every interleaving, the user never touching the form.
NoEditNext ==
    \/ Mount
    \/ HandleSave
    \/ StartupHandler
    \/ Progress

NoEditSpec == NoEditInit /\ [][NoEditNext]_vars

\* ------------------------------------------------------------ claims
\* No handler is under way and the host has applied every call.
Quiescent ==
    /\ storageQ = <<>>
    /\ alarmsQ = <<>>
    /\ \A id \in 1..Len(saves) : saves[id].pc = "done"
    /\ \A id \in 1..Len(startups) : startups[id].pc = "done"
    /\ \A id \in 1..Len(fires) : fires[id].pc = "done"

\* The persisted settings, an absent key read as its documented default.
PersistedEnabled == IF "enabled" \in DOMAIN store THEN store["enabled"].b ELSE FALSE
PersistedInterval ==
    IF "interval" \in DOMAIN store THEN store["interval"].n ELSE 20
PersistedMessage ==
    IF "message" \in DOMAIN store THEN store["message"].s
    ELSE "Time to give your eyes a break!"

\* The alarm agrees with the persisted settings.
AlarmAgrees ==
    /\ Cardinality(DOMAIN alarms) <= 1
    /\ PersistedEnabled =>
          /\ AlarmName \in DOMAIN alarms
          /\ alarms[AlarmName].periodInMinutes = PersistedInterval
    /\ ~PersistedEnabled => DOMAIN alarms = {}

\* C1: whenever the system is at rest (after any sequence of startups, saves
\* and alarm firings) at most one alarm exists; it exists exactly when the
\* persisted `enabled` is true, and its period is the persisted interval.
C1_AlarmAgreesAtRest == Quiescent => AlarmAgrees

\* handleSave invocation k finishes in this step: its last callback has run.
SaveCompletes(k) == saves[k].pc # "done" /\ saves'[k].pc = "done"

\* Invocation k saves the very values invocation k - 1 saved.
SameAsPrevious(sv, k) ==
    /\ sv[k].enabled = sv[k - 1].enabled
    /\ sv[k].interval = sv[k - 1].interval
    /\ sv[k].message = sv[k - 1].message

\* Queue q holds a call `op` issued by invocation id of handler h.
Pending(q, op, h, id) ==
    \E i \in 1..Len(q) : q[i].op = op /\ q[i].h = h /\ q[i].id = id

\* C2: a save of the same enabled, interval and message as the save before
\* it detects no change and issues no alarm call: no step of it changes the
\* alarm (existence, period, scheduledTime) or the alarm queue.
C2_SecondSaveLeavesAlarm ==
    [][\A k \in 2..Len(saves') :
          (SameAsPrevious(saves', k) /\ (k > Len(saves) \/ saves'[k] # saves[k]))
          => /\ ~saves'[k].changed
             /\ saves'[k].pc \in {"getEnabled", "getInterval", "getMessage", "done"}
             /\ alarms' = alarms
             /\ alarmsQ' = alarmsQ]_vars

\* C2 witness: two saves of the same values with the alarm enabled; the first
\* installed the alarm, the second has finished, the alarm is there.
C2_Witness ==
    /\ Len(saves) = 2
    /\ SameAsPrevious(saves, 2)
    /\ saves[1].changed
    /\ saves[2].pc = "done"
    /\ saves[2].enabled = Bool(TRUE)
    /\ Quiescent
    /\ AlarmName \in DOMAIN alarms

\* C3: when a save that found `enabled` false and saves `enabled` true
\* finishes, exactly one alarm exists and its period is the saved interval.
C3_EnablingInstallsAlarm ==
    [][\A k \in 1..Len(saves) :
          (SaveCompletes(k) /\ saves'[k].prevEnabled = Bool(FALSE)
                            /\ saves'[k].enabled = Bool(TRUE))
          => /\ DOMAIN alarms' = {AlarmName}
             /\ alarms'[AlarmName].periodInMinutes = saves'[k].interval.n]_vars

\* C3 witness: the store was empty, the save of enabled = true and interval 1
\* has finished and the alarm has period 1.
C3_Witness ==
    /\ Len(saves) = 1
    /\ saves[1].pc = "done"
    /\ saves[1].prevEnabled = Bool(FALSE)
    /\ saves[1].enabled = Bool(TRUE)
    /\ saves[1].interval = Num(1)
    /\ DOMAIN alarms = {AlarmName}
    /\ alarms[AlarmName].periodInMinutes = 1

\* C4: when a save that found `enabled` true and saves `enabled` false
\* finishes, no alarm exists.
C4_DisablingRemovesAlarm ==
    [][\A k \in 1..Len(saves) :
          (SaveCompletes(k) /\ saves'[k].prevEnabled = Bool(TRUE)
                            /\ saves'[k].enabled = Bool(FALSE))
          => DOMAIN alarms' = {}]_vars

\* C4 witness: an alarm was installed by the first save; the second save
\* disabled it, has finished, and no alarm is left.
C4_Witness ==
    /\ Len(saves) = 2
    /\ saves[1].enabled = Bool(TRUE)
    /\ saves[1].changed
    /\ saves[2].pc = "done"
    /\ saves[2].prevEnabled = Bool(TRUE)
    /\ saves[2].enabled = Bool(FALSE)
    /\ DOMAIN alarms = {}

\* Any of the three values invocation t read differs from the value it saves.
AnyDiffers(t) ==
    \/ t.prevEnabled # t.enabled
    \/ t.prevInterval # t.interval
    \/ t.prevMessage # t.message

\* C5: when a save finishes that found any of the three persisted values
\* different from the new one, it has cleared the alarm, and there is an
\* alarm if and only if the new `enabled` is true, with the new interval as
\* its period.
C5_ChangeReplacesAlarm ==
    [][\A k \in 1..Len(saves) :
          (SaveCompletes(k) /\ AnyDiffers(saves'[k]))
          => /\ saves[k].pc = "nextAlarm"
             /\ saves'[k].changed
             /\ IF saves'[k].enabled.b
                THEN /\ DOMAIN alarms' = {AlarmName}
                     /\ alarms'[AlarmName].periodInMinutes = saves'[k].interval.n
                ELSE DOMAIN alarms' = {}]_vars

\* C5 witness: a save changed only the interval, from 20 to 1, with the alarm
\* enabled before and after; the alarm now has period 1.
C5_Witness ==
    /\ Len(saves) = 2
    /\ saves[2].pc = "done"
    /\ saves[2].prevEnabled = Bool(TRUE) /\ saves[2].enabled = Bool(TRUE)
    /\ saves[2].prevMessage = saves[2].message
    /\ saves[2].prevInterval = Num(20) /\ saves[2].interval = Num(1)
    /\ DOMAIN alarms = {AlarmName}
    /\ alarms[AlarmName].periodInMinutes = 1

\* C6: a save that changes only the message, with `enabled` true before and
\* after and the interval unchanged, still clears and recreates the alarm:
\* when it finishes exactly one alarm exists, with the period as before.
C6_MessageOnlyRecreates ==
    [][\A k \in 1..Len(saves) :
          (SaveCompletes(k) /\ saves'[k].prevEnabled = Bool(TRUE)
                            /\ saves'[k].enabled = Bool(TRUE)
                            /\ saves'[k].prevInterval = saves'[k].interval
                            /\ saves'[k].prevMessage # saves'[k].message)
          => /\ saves[k].pc = "nextAlarm"
             /\ saves'[k].changed
             /\ ~Pending(alarmsQ', "create", "save", k)
             /\ DOMAIN alarms' = {AlarmName}
             /\ alarms'[AlarmName].periodInMinutes = saves'[k].prevInterval.n]_vars

\* C6 witness: the second save changed only the message and has finished;
\* the alarm is there with the period it had.
C6_Witness ==
    /\ Len(saves) = 2
    /\ saves[2].pc = "done"
    /\ saves[2].changed
    /\ saves[2].prevEnabled = Bool(TRUE) /\ saves[2].enabled = Bool(TRUE)
    /\ saves[2].prevInterval = saves[2].interval
    /\ saves[2].prevMessage # saves[2].message
    /\ DOMAIN alarms = {AlarmName}
    /\ alarms[AlarmName].periodInMinutes = saves[2].interval.n

\* C7: a startup that finds the persisted `enabled` false (or absent) calls
\* neither alarms.clear nor alarms.create: a startupHandler that waits for
\* its clear, with every write applied, has found `enabled` true.
C7_StartupDisabledNoAction ==
    \A id \in 1..Len(startups) :
        (startups[id].pc = "clear" /\ storageQ = <<>>) => PersistedEnabled

\* C8: on a startup with the persisted `enabled` true, once the clear is
\* done startupHandler issues the create with the persisted interval as
\* periodInMinutes.  (No save runs while startupHandler waits for the clear,
\* so with every write applied the store holds what its reads return.)
C8_StartupCreatesWithInterval ==
    [][\A id \in 1..Len(startups) :
          (/\ startups[id].pc = "clear"
           /\ startups'[id].pc = "done"
           /\ storageQ = <<>>
           /\ PersistedEnabled)
          => \E i \in 1..Len(alarmsQ') :
                /\ alarmsQ'[i].op = "create"
                /\ alarmsQ'[i].h = "startup"
                /\ alarmsQ'[i].id = id
                /\ alarmsQ'[i].val = Num(PersistedInterval)]_vars

\* Invocation k of handleSave issues a write in this step.
IssuesWrite(k) ==
    Pending(storageQ', "set", "save", k) /\ ~Pending(storageQ, "set", "save", k)

C10_EveryCallAwaited ==
    /\ \A k \in 1..Len(saves) :
          saves[k].pc \in {"nextAlarm", "done"} =>
              /\ ~Pending(storageQ, "set", "save", k)
              /\ ~Pending(alarmsQ, "create", "save", k)
    /\ \A id \in 1..Len(startups) :
          startups[id].pc = "done" => ~Pending(alarmsQ, "create", "startup", id)

\* C11: clear always comes before create: in every execution, overlapping
\* handlers included, an alarms.create that installs the alarm is applied
\* only when no alarm of that name exists.
C11_CreateOnlyWhenNoAlarm ==
    [][(/\ alarmsQ # <<>>
        /\ Head(alarmsQ).op = "create"
        /\ Head(alarmsQ).val.type = "number"
        /\ alarmsQ' = Tail(alarmsQ))
       => Head(alarmsQ).key \notin DOMAIN alarms]_vars

\* The alarm handler of fire id reaches createNotification in this step.
FireCompletes(id) ==
    /\ fires[id].pc = "getMessage"
    /\ fires'[id].pc = "done"

\* C12: each fire of the alarm "eye-break-notification" requests exactly
\* one notification, titled "Eye Break!", whose message is the one
\* persisted when the handler reads it (the default if the key is absent);
\* nothing else requests a notification.
C12_FireNotifiesPersistedMessage ==
    [][/\ \A id \in 1..Len(fires) :
            (fires[id].name = "eye-break-notification" /\ FireCompletes(id))
            => notifications' = Append(notifications,
                  [title |-> "Eye Break!", message |-> PersistedMessage])
       /\ (\A id \in 1..Len(fires) : ~FireCompletes(id))
            => notifications' = notifications]_vars

\* The alarm has fired and its one notification carries a stored empty
\* message.
C12_Witness ==
    /\ Len(fires) = 1
    /\ fires[1].name = "eye-break-notification"
    /\ fires[1].pc = "done"
    /\ "message" \in DOMAIN store
    /\ notifications = <<[title |-> "Eye Break!", message |-> ""]>>

\* C13: an alarm event with a name other than "eye-break-notification"
\* emits a diagnostic and the handler carries on: it requests one
\* notification with the message persisted when it reads it.
C13_UnexpectedNameStillNotifies ==
    [][/\ \A id \in 1..Len(fires') :
            fires'[id].name # "eye-break-notification" => fires'[id].diagnostic
       /\ \A id \in 1..Len(fires) :
            (fires[id].name # "eye-break-notification" /\ FireCompletes(id))
            => notifications' = Append(notifications,
                  [title |-> "Eye Break!", message |-> PersistedMessage])
       /\ Len(notifications') =
            Cardinality({id \in 1..Len(fires') : fires'[id].pc = "done"})]_vars

\* An event with an unexpected name was handled: diagnostic logged and the
\* notification requested with a stored empty message.
C13_Witness ==
    /\ Len(fires) = 1
    /\ fires[1].name # "eye-break-notification"
    /\ fires[1].diagnostic
    /\ fires[1].pc = "done"
    /\ "message" \in DOMAIN store
    /\ notifications = <<[title |-> "Eye Break!", message |-> ""]>>

\* The first save asked for the alarm and has returned; its create failed.
FirstSaveCreateFailed ==
    /\ Len(saves) = 1
    /\ saves[1].pc = "done"
    /\ saves[1].changed
    /\ Truthy(saves[1].enabled)
    /\ ~FirstSaveCreate

\* C14: when alarms.create fails during a save, no alarm exists afterwards,
\* and the next reconciliation trigger with enabled persisted as true, here
\* a startup, installs an alarm again: once the startup's create has been
\* handled by the host, the alarm exists.
C14_FailedCreateThenReinstalled ==
    [][/\ (FirstSaveCreate /\ alarmsQ' = Tail(alarmsQ))
            => DOMAIN alarms' = {}
       /\ (/\ FirstSaveCreateFailed
           /\ storageQ = <<>>
           /\ PersistedEnabled
           /\ alarmsQ # <<>>
           /\ Head(alarmsQ).op = "create"
           /\ Head(alarmsQ).h = "startup"
           /\ alarmsQ' = Tail(alarmsQ))
            => "eye-break-notification" \in DOMAIN alarms']_vars

\* What a get of the key should return: the stored value when the key is
\* present, whatever it is, and the documented default when it is absent.
StoredOrDefault(key) ==
    IF key \in DOMAIN store THEN store[key]
    ELSE CASE key = "enabled" -> Bool(FALSE)
           [] key = "interval" -> Num(20)
           [] OTHER -> Str("Time to give your eyes a break!")

\* C15: every getter, of the popup and of the background, returns the
\* persisted value when the key is present, a falsy value (false, 0, "")
\* included, and the default when it is absent (false, 20, "Time to give
\* your eyes a break!"); the form and the notification get that value.
C15_GettersReturnStoredOrDefault ==
    [][/\ GetEnabled(store) = StoredOrDefault("enabled")
       /\ GetInterval(store) = StoredOrDefault("interval")
       /\ GetMessage(store) = StoredOrDefault("message")
       /\ BgGetEnabled(store) = StoredOrDefault("enabled")
       /\ BgGetInterval(store) = StoredOrDefault("interval")
       /\ BgGetMessage(store) = StoredOrDefault("message")
       /\ (Awaiting(storageQ, "mount", 0) /\ storageQ' = Tail(storageQ))
            => ui'[Head(storageQ).key] = StoredOrDefault(Head(storageQ).key)
       /\ \A id \in 1..Len(fires) :
            FireCompletes(id)
            => fires'[id].message = StoredOrDefault("message")]_vars

\* Every key is present with a falsy value, and the form and the alarm
\* handler have read them back as stored.
C15_Witness ==
    /\ store = [k \in {"enabled", "interval", "message"} |->
                  CASE k = "enabled" -> Bool(FALSE)
                    [] k = "interval" -> Num(0)
                    [] OTHER -> Str("")]
    /\ mounted
    /\ storageQ = <<>>
    /\ ui.enabled = Bool(FALSE)
    /\ ui.interval = Num(0)
    /\ ui.message = Str("")
    /\ Len(fires) = 1
    /\ fires[1].pc = "done"
    /\ fires[1].message = Str("")

\* A 500 ms poll is answered in this step: only nextTime changes.
PollAnswered ==
    /\ mounted
    /\ ui' # ui
    /\ ui' = [ui EXCEPT !.nextTime = ui'.nextTime]
    /\ UNCHANGED <<store, alarms, now, storageQ, alarmsQ, mounted, saves,
                   startups, fires, notifications>>

\* C16: the countdown is shown only while the last value read,
\* scheduledTime - currentTime, is positive; a read that finds no alarm
\* gives a non-positive value, so the countdown is hidden as soon as a read
\* (the 500 ms poll, or the one that ends handleSave) is answered while
\* there is no alarm.
C16_NoAlarmHidesCountdown ==
    [][/\ CountdownShown(ui') <=> ui'.nextTime > 0
       /\ (PollAnswered /\ "eye-break-notification" \notin DOMAIN alarms)
            => ~CountdownShown(ui')
       /\ \A k \in 1..Len(saves) :
            (/\ saves[k].pc = "nextAlarm"
             /\ saves'[k].pc = "done"
             /\ "eye-break-notification" \notin DOMAIN alarms)
            => ~CountdownShown(ui')]_vars

\* The alarm was installed and then cleared by a disabling save, and a
\* read a minute later found no alarm: the countdown is hidden.
C16_Witness ==
    /\ Len(saves) = 2
    /\ Truthy(saves[1].enabled)
    /\ ~Truthy(saves[2].enabled)
    /\ saves[2].pc = "done"
    /\ alarmsQ = <<>>
    /\ DOMAIN alarms = {}
    /\ ui.nextTime = 0 - now
    /\ now > 0
    /\ ~CountdownShown(ui)

\* C17: when saves overlap, once every handler has returned and the host
\* has applied every call, the alarm agrees with the settings finally
\* persisted: it exists exactly when enabled is true, with the persisted
\* interval as its period.  Stated for runs of the popup alone, no startup
\* having happened.
C17_OverlappingSavesAgreeAtRest ==
    (Quiescent /\ Len(startups) = 0) => AlarmAgrees

\* C18: a save in which the user edited no field never changes the
\* persisted settings and never clears or recreates the alarm, also when
\* Save is pressed before the three initial loads have resolved.
C18_UneditedSaveChangesNothing ==
    [][/\ PersistedEnabled' = PersistedEnabled
       /\ PersistedInterval' = PersistedInterval
       /\ PersistedMessage' = PersistedMessage
       /\ \A k \in 1..Len(saves') :
            /\ ~Pending(alarmsQ', "clear", "save", k)
            /\ ~Pending(alarmsQ', "create", "save", k)]_vars

====
